---- MODULE Spec2Model ----
(***************************************************************************)
(* MSP DisplayPort pipeline: the MSPv1 frame codec (msp_proto.py,          *)
(* msp_dp_forward.py), the two canvas models (displayport.py,              *)
(* msp_dp_render_png.py), the throttled render loop (msp_dp_render_png.py  *)
(* run), the terminal loop (msp_dp_tui.py run), the serial reader          *)
(* (msp_dp_forward.py read_one_msp_reply) and the image commit             *)
(* (msp_dp_render_png.py _save_atomic).                                    *)
(*                                                                         *)
(* Bytes are integers 0..255, byte strings are sequences of bytes; Python  *)
(* index i is TLA+ index i + 1.  Times are in milliseconds.                *)
(***************************************************************************)
EXTENDS Integers, Sequences, FiniteSets, TLC

VARIABLES
    \* ---- codec harness (SpecCodec)
    cpc,            \* "idle" | "built" | "parsed"
    buf,            \* the byte buffer handed to parse_msp_v1
    sent,           \* the (cmd, payload) msp_v1 was called with
    intact,         \* buf is still exactly what msp_v1 returned
    flipped,        \* one byte of buf has been replaced on the wire
    cut,            \* buf has been truncated on the wire
    res,            \* what parse_msp_v1 returned for buf
    \* ---- canvases (SpecCanvas, Spec)
    canvas,         \* MSPDPCanvas: [cols, rows, frame, dirty, grid]
    tcanvas,        \* displayport.Canvas: [cols, rows, frame, dirty, grid]
    calls,          \* the canvas calls made since the last Forget
    pre,            \* canvas as it was before the first of these calls
    tpre,           \* tcanvas as it was before the first of these calls
    \* ---- render loop (Spec)
    now,            \* wall clock, ms
    last_write_ts,  \* run(): time of the last committed render, ms
    fps,            \* run(): the fps argument
    images,         \* number of images committed to the output path
    out,            \* the grid shown by the image at the output path
    dgram,          \* run(): data, the datagram recvfrom returned last
    hist,           \* the datagrams processed since start, while fresh
    fresh,          \* hist is the whole history of the session
    branch,         \* the branch the last loop iteration took
    gate_dirty,     \* run(): canvas.dirty as the render gate last read it
    \* ---- terminal loop (SpecTui; it also uses tcanvas, now, dgram, branch)
    last_render,    \* msp_dp_tui run(): time of the last screen redraw, ms
    last_info,      \* msp_dp_tui run(): time of the last periodic refresh, ms
    screen,         \* the grid the terminal shows
    shown,          \* the last iteration redrew the terminal
    \* ---- serial reader (SpecStream)
    stream,         \* every byte the serial line delivers, in order
    spos,           \* the number of bytes of stream ser.read has returned
    sbuf,           \* read_one_msp_reply: buf
    rpc,            \* read_one_msp_reply: "scan" | "ln" | "cmd" | "payload" | "csum" | "done"
    ln_b,           \* read_one_msp_reply: ln_b
    cmd_b,          \* read_one_msp_reply: cmd_b
    rpayload,       \* read_one_msp_reply: payload
    reply,          \* what read_one_msp_reply returned
    \* ---- image commit (SpecCommit)
    dir,            \* the directory: path -> inode, 0 when the path does not exist
    files,          \* inode -> the chunks of data the file holds
    committed,      \* the number of images _save_atomic has committed
    wpc,            \* _save_atomic: "idle" | "writing" | "written" | "failed"
    wfd,            \* the inode image.save writes to
    rdpc,           \* reader: "idle" | "reading" | "done" | "absent"
    rfd,            \* the inode the reader has open
    rgot,           \* the chunks the reader has read from it
    ropened         \* the value of committed when the reader opened the path

codecVars  == <<cpc, buf, sent, intact, flipped, cut, res>>
canvasVars == <<canvas, tcanvas, calls, pre, tpre>>
loopVars   == <<now, last_write_ts, fps, images, out, dgram, hist, fresh,
                 branch, gate_dirty>>
tuiVars    == <<last_render, last_info, screen, shown>>
streamVars == <<stream, spos, sbuf, rpc, ln_b, cmd_b, rpayload, reply>>
commitVars == <<dir, files, committed, wpc, wfd, rdpc, rfd, rgot, ropened>>
extraVars  == <<tuiVars, streamVars, commitVars>>
vars       == <<codecVars, canvasVars, loopVars, extraVars>>

(***************************************************************************)
(* Bounds                                                                  *)
(***************************************************************************)
MaxLen     == 2     \* longest payload given to msp_v1 in SpecCodec
MaxData    == 3     \* longest data argument of write_string in SpecCanvas
MaxFrame   == 2     \* draw() is not called once frame has reached this
MaxElapsed == 200   \* the clock runs at most this many ms past its start
MaxHist    == 2     \* hist records at most this many datagrams
StartTime  == 1000  \* the wall clock when run() starts

CmdBytes     == {0, 182}
PayloadBytes == {0, 65, 255}
FlipBytes    == {0, 1, 33, 36, 62, 255}

RECURSIVE SeqsUpTo(_, _)
SeqsUpTo(S, n) ==
    IF n = 0 THEN {<<>>}
    ELSE LET shorter == SeqsUpTo(S, n - 1)
         IN  shorter \cup {Append(s, x) : s \in {t \in shorter : Len(t) = n - 1}, x \in S}

(***************************************************************************)
(* Byte arithmetic                                                         *)
(***************************************************************************)
RECURSIVE XorBits(_, _, _)
XorBits(a, b, n) ==
    IF n = 0 THEN 0
    ELSE (((a % 2) + (b % 2)) % 2) + (2 * XorBits(a \div 2, b \div 2, n - 1))

\* Python's ^ on two ints in 0..255
Xor(a, b) == XorBits(a, b, 8)

\* chk = (ln ^ cmd) & 0xFF; for b in payload: chk ^= b
RECURSIVE XorFold(_, _)
XorFold(chk, payload) ==
    IF payload = <<>> THEN chk
    ELSE XorFold(Xor(chk, Head(payload)), Tail(payload))

(***************************************************************************)
(* msp_dp_forward.py: msp_v1                                               *)
(***************************************************************************)
DirRequest  == <<36, 77, 60>>    \* b"$M<"
DirResponse == <<36, 77, 62>>    \* b"$M>"
DirError    == <<36, 77, 33>>    \* b"$M!"

\* faulty variant: the checksum leaves out the length byte
msp_v1_no_len_in_checksum(cmd, payload) ==
    LET hdr == DirRequest
        ln  == Len(payload)
        chk == XorFold(cmd % 256, payload)
    IN  hdr \o <<ln, cmd>> \o payload \o <<chk>>

msp_v1(cmd, payload) ==
    LET hdr == DirRequest
        ln  == Len(payload)
        chk == XorFold(Xor(ln, cmd) % 256, payload)
    IN  hdr \o <<ln, cmd>> \o payload \o <<chk>>

(***************************************************************************)
(* msp_proto.py: MSPv1Frame, parse_msp_v1                                  *)
(***************************************************************************)
None == [kind |-> "None"]

MSPv1Frame(direction, cmd, payload, csum_ok) ==
    [kind |-> "frame", direction |-> direction, cmd |-> cmd,
     payload |-> payload, csum_ok |-> csum_ok]

Directions == {DirResponse, DirRequest, DirError}

\* Python slice buf[lo:hi], clipped to the buffer
Slice(b, lo, hi) ==
    LET h == IF hi < Len(b) THEN hi ELSE Len(b)
    IN  IF lo >= h THEN <<>> ELSE SubSeq(b, lo + 1, h)

\* Python b[i] on a byte string: an IndexError past the end
Raised == [kind |-> "IndexError"]

\* faulty variant: the checksum verdict is not computed, every frame is reported good
parse_msp_v1_csum_always_ok(b) ==
    IF Len(b) < 6 THEN None
    ELSE LET direction == Slice(b, 0, 3)
         IN  IF direction \notin Directions THEN None
             ELSE LET ln   == b[4]
                      cmd  == b[5]
                      need == 3 + 1 + 1 + ln + 1
                  IN  IF Len(b) < need THEN None
                      ELSE MSPv1Frame(direction, cmd, Slice(b, 5, 5 + ln), TRUE)

\* faulty variant: only the response marker is accepted
parse_msp_v1_response_only(b) ==
    IF Len(b) < 6 THEN None
    ELSE LET direction == Slice(b, 0, 3)
         IN  IF direction # DirResponse THEN None
             ELSE LET ln      == b[4]
                      cmd     == b[5]
                      need    == 3 + 1 + 1 + ln + 1
                  IN  IF Len(b) < need THEN None
                      ELSE LET payload == Slice(b, 5, 5 + ln)
                               csum    == b[5 + ln + 1]
                               chk     == XorFold(Xor(ln, cmd) % 256, payload)
                           IN  MSPv1Frame(direction, cmd, payload, (chk % 256) = csum)

\* faulty variant: the length test forgets the checksum byte (need = 3 + 1 + 1 + ln)
parse_msp_v1_short_need(b) ==
    IF Len(b) < 6 THEN None
    ELSE LET direction == Slice(b, 0, 3)
         IN  IF direction \notin Directions THEN None
             ELSE LET ln      == b[4]
                      cmd     == b[5]
                      need    == 3 + 1 + 1 + ln
                  IN  IF Len(b) < need THEN None
                      ELSE IF 5 + ln >= Len(b) THEN Raised
                      ELSE LET payload == Slice(b, 5, 5 + ln)
                               csum    == b[5 + ln + 1]
                               chk     == XorFold(Xor(ln, cmd) % 256, payload)
                           IN  MSPv1Frame(direction, cmd, payload, (chk % 256) = csum)

\* faulty variant: the marker test is missing
parse_msp_v1_no_marker_test(b) ==
    IF Len(b) < 6 THEN None
    ELSE LET direction == Slice(b, 0, 3)
             ln        == b[4]
             cmd       == b[5]
             need      == 3 + 1 + 1 + ln + 1
         IN  IF Len(b) < need THEN None
             ELSE LET payload == Slice(b, 5, 5 + ln)
                      csum    == b[5 + ln + 1]
                      chk     == XorFold(Xor(ln, cmd) % 256, payload)
                  IN  MSPv1Frame(direction, cmd, payload, (chk % 256) = csum)

parse_msp_v1(b) ==
    IF Len(b) < 6 THEN None
    ELSE LET direction == Slice(b, 0, 3)
         IN  IF direction \notin Directions THEN None
             ELSE LET ln      == b[4]
                      cmd     == b[5]
                      need    == 3 + 1 + 1 + ln + 1
                  IN  IF Len(b) < need THEN None
                      ELSE LET payload == Slice(b, 5, 5 + ln)
                               csum    == b[5 + ln + 1]
                               chk     == XorFold(Xor(ln, cmd) % 256, payload)
                           IN  MSPv1Frame(direction, cmd, payload, (chk % 256) = csum)

(***************************************************************************)
(* msp_dp_render_png.py: MSPDPCanvas.  A cell holds the str " " or an int.  *)
(***************************************************************************)
Shapes    == {<<2, 2>>, <<1, 3>>}      \* (rows, cols) a canvas is built with
DataBytes == {0, 65, 200}              \* bytes of a write_string argument

StrCell(code) == [int |-> FALSE, v |-> code]
IntCell(value) == [int |-> TRUE, v |-> value]
Space == 32
Blank == StrCell(Space)                \* the str " "

BlankGrid(rows, cols) == [r \in 0 .. rows - 1 |-> [c \in 0 .. cols - 1 |-> Blank]]

\* faulty variant: clear() blanks the grid but does not mark the canvas dirty
clear_no_dirty(self) ==
    [self EXCEPT !.grid = BlankGrid(self.rows, self.cols)]

\* faulty variant: clear() also resets the frame counter
clear_resets_frame(self) ==
    [self EXCEPT !.grid = BlankGrid(self.rows, self.cols), !.dirty = TRUE, !.frame = 0]

clear(self) ==
    [self EXCEPT !.grid = BlankGrid(self.rows, self.cols), !.dirty = TRUE]

\* MSPDPCanvas(cols=cols, rows=rows): frame = 0, dirty = True, __post_init__
MSPDPCanvas(cols, rows) ==
    clear([cols |-> cols, rows |-> rows, frame |-> 0, dirty |-> TRUE, grid |-> <<>>])

\* payload.split(b"\x00", 1)[0]
RECURSIVE SplitAtZero(_)
SplitAtZero(s) ==
    IF s = <<>> THEN <<>>
    ELSE IF Head(s) = 0 THEN <<>>
    ELSE <<Head(s)>> \o SplitAtZero(Tail(s))

HasZero(s) == \E i \in 1 .. Len(s) : s[i] = 0

\* x = col; for value in payload: if x >= cols: break; grid[row][x] = value; x += 1
RECURSIVE WriteCells(_, _, _, _, _)
WriteCells(grid, cols, row, x, payload) ==
    IF payload = <<>> THEN grid
    ELSE IF x >= cols THEN grid
    ELSE WriteCells([grid EXCEPT ![row][x] = IntCell(Head(payload))],
                    cols, row, x + 1, Tail(payload))

\* faulty variant: the loop wraps to the next row instead of stopping at the right edge
RECURSIVE WriteCellsWrap(_, _, _, _, _)
WriteCellsWrap(grid, cols, row, x, payload) ==
    IF payload = <<>> THEN grid
    ELSE IF x >= cols
         THEN IF row + 1 \in DOMAIN grid
              THEN WriteCellsWrap(grid, cols, row + 1, 0, payload)
              ELSE grid
    ELSE WriteCellsWrap([grid EXCEPT ![row][x] = IntCell(Head(payload))],
                        cols, row, x + 1, Tail(payload))

\* faulty variant: the "col >= self.cols" test is missing
write_string_no_col_test(self, row, col, data) ==
    IF row < 0 \/ row >= self.rows \/ col < 0 THEN self
    ELSE IF data = <<>> THEN self
    ELSE LET payload == Slice(data, 1, Len(data))
             text    == IF HasZero(payload) THEN SplitAtZero(payload) ELSE payload
         IN  [self EXCEPT !.grid = WriteCells(self.grid, self.cols, row, col, text),
                          !.dirty = TRUE]

\* faulty variant: the string wraps around at the right edge
write_string_wraps(self, row, col, data) ==
    IF row < 0 \/ row >= self.rows \/ col < 0 \/ col >= self.cols THEN self
    ELSE IF data = <<>> THEN self
    ELSE LET payload == Slice(data, 1, Len(data))
             text    == IF HasZero(payload) THEN SplitAtZero(payload) ELSE payload
         IN  [self EXCEPT !.grid = WriteCellsWrap(self.grid, self.cols, row, col, text),
                          !.dirty = TRUE]

\* faulty variant: the attribute byte is written as the first character
write_string_writes_attribute(self, row, col, data) ==
    IF row < 0 \/ row >= self.rows \/ col < 0 \/ col >= self.cols THEN self
    ELSE IF data = <<>> THEN self
    ELSE LET text == IF HasZero(data) THEN SplitAtZero(data) ELSE data
         IN  [self EXCEPT !.grid = WriteCells(self.grid, self.cols, row, col, text),
                          !.dirty = TRUE]

\* faulty variant: the zero byte does not end the string
write_string_no_terminator(self, row, col, data) ==
    IF row < 0 \/ row >= self.rows \/ col < 0 \/ col >= self.cols THEN self
    ELSE IF data = <<>> THEN self
    ELSE LET payload == Slice(data, 1, Len(data))
         IN  [self EXCEPT !.grid = WriteCells(self.grid, self.cols, row, col, payload),
                          !.dirty = TRUE]

write_string(self, row, col, data) ==
    IF row < 0 \/ row >= self.rows \/ col < 0 \/ col >= self.cols THEN self
    ELSE IF data = <<>> THEN self
    ELSE LET payload == Slice(data, 1, Len(data))
             text    == IF HasZero(payload) THEN SplitAtZero(payload) ELSE payload
         IN  [self EXCEPT !.grid = WriteCells(self.grid, self.cols, row, col, text),
                          !.dirty = TRUE]

\* faulty variant: draw() marks dirty but does not count the frame
draw_no_count(self) == [self EXCEPT !.dirty = TRUE]

\* faulty variant: draw() counts the frame but does not mark the canvas dirty
draw_no_dirty(self) == [self EXCEPT !.frame = self.frame + 1]

draw(self) == [self EXCEPT !.frame = self.frame + 1, !.dirty = TRUE]

(***************************************************************************)
(* displayport.py: Canvas.  A cell holds a one-character str, modelled by  *)
(* its code point.                                                         *)
(***************************************************************************)
Dot == 183                             \* the str "·"

_safe_ascii(b) == IF 32 <= b /\ b <= 126 THEN b ELSE Dot

Canvas_clear(self) ==
    [self EXCEPT !.grid = [r \in 0 .. self.rows - 1 |-> [c \in 0 .. self.cols - 1 |-> Space]],
                 !.dirty = TRUE]

\* Canvas(cols=cols, rows=rows): __post_init__ clears, then frame = 0, dirty = True
Canvas(cols, rows) ==
    [Canvas_clear([cols |-> cols, rows |-> rows, frame |-> 0, dirty |-> TRUE, grid |-> <<>>])
        EXCEPT !.frame = 0, !.dirty = TRUE]

RECURSIVE Canvas_WriteCells(_, _, _, _, _)
Canvas_WriteCells(grid, cols, row, x, sbytes) ==
    IF sbytes = <<>> THEN grid
    ELSE IF x >= cols THEN grid
    ELSE Canvas_WriteCells([grid EXCEPT ![row][x] = _safe_ascii(Head(sbytes))],
                           cols, row, x + 1, Tail(sbytes))

Canvas_write_string(self, row, col, data) ==
    IF row < 0 \/ row >= self.rows \/ col < 0 \/ col >= self.cols THEN self
    ELSE IF data = <<>> THEN self
    ELSE LET sbytes == Slice(data, 1, Len(data))
             text   == IF HasZero(sbytes) THEN SplitAtZero(sbytes) ELSE sbytes
         IN  [self EXCEPT !.grid = Canvas_WriteCells(self.grid, self.cols, row, col, text),
                          !.dirty = TRUE]

\* faulty variant: Canvas.draw() counts the frame but does not mark dirty
Canvas_draw_no_dirty(self) == [self EXCEPT !.frame = self.frame + 1]

Canvas_draw(self) == [self EXCEPT !.frame = self.frame + 1, !.dirty = TRUE]

(***************************************************************************)
(* Initial states of the three parts                                       *)
(***************************************************************************)
CodecInit ==
    /\ cpc = "idle"
    /\ buf = <<>>
    /\ sent = [cmd |-> 0, payload |-> <<>>]
    /\ intact = FALSE
    /\ flipped = FALSE
    /\ cut = FALSE
    /\ res = None

CanvasInit(rows, cols) ==
    /\ canvas = MSPDPCanvas(cols, rows)
    /\ tcanvas = Canvas(cols, rows)
    /\ calls = <<>>
    /\ pre = MSPDPCanvas(cols, rows)
    /\ tpre = Canvas(cols, rows)

LoopIdle ==
    /\ now = 0
    /\ last_write_ts = 0
    /\ fps = 0
    /\ images = 0
    /\ out = <<>>
    /\ dgram = <<>>
    /\ hist = <<>>
    /\ fresh = FALSE
    /\ branch = "start"
    /\ gate_dirty = TRUE

TuiIdle ==
    /\ last_render = 0
    /\ last_info = 0
    /\ screen = <<>>
    /\ shown = FALSE

StreamIdle ==
    /\ stream = <<>>
    /\ spos = 0
    /\ sbuf = <<>>
    /\ rpc = "idle"
    /\ ln_b = <<>>
    /\ cmd_b = <<>>
    /\ rpayload = <<>>
    /\ reply = None

CommitIdle ==
    /\ dir = [p \in {"out", "tmp"} |-> 0]
    /\ files = <<>>
    /\ committed = 0
    /\ wpc = "idle"
    /\ wfd = 0
    /\ rdpc = "idle"
    /\ rfd = 0
    /\ rgot = <<>>
    /\ ropened = 0

ExtraIdle == TuiIdle /\ StreamIdle /\ CommitIdle

(***************************************************************************)
(* SpecCodec: msp_v1 builds a frame, the wire may replace one byte and     *)
(* cut the frame short, parse_msp_v1 parses what arrives.                  *)
(***************************************************************************)
Payloads == SeqsUpTo(PayloadBytes, MaxLen)

Encode(c, p) ==
    /\ cpc = "idle"
    /\ buf' = msp_v1(c, p)
    /\ sent' = [cmd |-> c, payload |-> p]
    /\ intact' = TRUE
    /\ flipped' = FALSE
    /\ cut' = FALSE
    /\ cpc' = "built"
    /\ UNCHANGED <<res, canvasVars, loopVars, extraVars>>

Flip(i, b) ==
    /\ cpc = "built" /\ ~flipped /\ ~cut
    /\ i \in 1 .. Len(buf)
    /\ buf[i] # b
    /\ buf' = [buf EXCEPT ![i] = b]
    /\ flipped' = TRUE
    /\ intact' = FALSE
    /\ UNCHANGED <<cpc, sent, cut, res, canvasVars, loopVars, extraVars>>

Truncate(n) ==
    /\ cpc = "built" /\ ~cut
    /\ n \in 0 .. Len(buf) - 1
    /\ buf' = SubSeq(buf, 1, n)
    /\ cut' = TRUE
    /\ intact' = FALSE
    /\ UNCHANGED <<cpc, sent, flipped, res, canvasVars, loopVars, extraVars>>

Parse ==
    /\ cpc = "built"
    /\ res' = parse_msp_v1(buf)
    /\ cpc' = "parsed"
    /\ UNCHANGED <<buf, sent, intact, flipped, cut, canvasVars, loopVars, extraVars>>

Reset ==
    /\ cpc = "parsed"
    /\ cpc' = "idle"
    /\ buf' = <<>>
    /\ sent' = [cmd |-> 0, payload |-> <<>>]
    /\ intact' = FALSE
    /\ flipped' = FALSE
    /\ cut' = FALSE
    /\ res' = None
    /\ UNCHANGED <<canvasVars, loopVars, extraVars>>

InitCodec == CodecInit /\ CanvasInit(1, 1) /\ LoopIdle /\ ExtraIdle

NextCodec ==
    \/ \E c \in CmdBytes, p \in Payloads : Encode(c, p)
    \/ \E i \in 1 .. 6 + MaxLen, b \in FlipBytes : Flip(i, b)
    \/ \E n \in 0 .. 5 + MaxLen : Truncate(n)
    \/ Parse
    \/ Reset

SpecCodec == InitCodec /\ [][NextCodec]_vars

(***************************************************************************)
(* SpecCanvas: the canvas methods called in any order, on both canvases.    *)
(* calls and pre remember the calls made since the last Forget: one        *)
(* write_string, or up to two calls without arguments.                     *)
(***************************************************************************)
Datas == SeqsUpTo(DataBytes, MaxData)

Call(name, row, col, data) == [name |-> name, row |-> row, col |-> col, data |-> data]

CanRemember(name) ==
    \/ calls = <<>>
    \/ /\ Len(calls) = 1
       /\ calls[1].name # "write_string"
       /\ name # "write_string"

Remember(c) ==
    /\ calls' = Append(calls, c)
    /\ UNCHANGED <<pre, tpre>>

CallClear ==
    /\ CanRemember("clear")
    /\ canvas' = clear(canvas)
    /\ tcanvas' = Canvas_clear(tcanvas)
    /\ Remember(Call("clear", 0, 0, <<>>))
    /\ UNCHANGED <<codecVars, loopVars, extraVars>>

CallWriteString(row, col, data) ==
    /\ CanRemember("write_string")
    /\ canvas' = write_string(canvas, row, col, data)
    /\ tcanvas' = Canvas_write_string(tcanvas, row, col, data)
    /\ Remember(Call("write_string", row, col, data))
    /\ UNCHANGED <<codecVars, loopVars, extraVars>>

CallDraw ==
    /\ CanRemember("draw")
    /\ canvas.frame < MaxFrame
    /\ canvas' = draw(canvas)
    /\ tcanvas' = Canvas_draw(tcanvas)
    /\ Remember(Call("draw", 0, 0, <<>>))
    /\ UNCHANGED <<codecVars, loopVars, extraVars>>

\* the canvas has been rendered: canvas.dirty = False
Rendered ==
    /\ CanRemember("render")
    /\ canvas.dirty
    /\ canvas' = [canvas EXCEPT !.dirty = FALSE]
    /\ tcanvas' = [tcanvas EXCEPT !.dirty = FALSE]
    /\ Remember(Call("render", 0, 0, <<>>))
    /\ UNCHANGED <<codecVars, loopVars, extraVars>>

Forget ==
    /\ calls # <<>>
    /\ calls' = <<>>
    /\ pre' = canvas
    /\ tpre' = tcanvas
    /\ UNCHANGED <<canvas, tcanvas, codecVars, loopVars, extraVars>>

InitCanvas ==
    /\ CodecInit
    /\ \E shape \in Shapes : CanvasInit(shape[1], shape[2])
    /\ LoopIdle
    /\ ExtraIdle

NextCanvas ==
    \/ CallClear
    \/ /\ CanRemember("write_string")
       /\ \E row \in -1 .. canvas.rows, col \in -1 .. canvas.cols, data \in Datas :
             CallWriteString(row, col, data)
    \/ CallDraw
    \/ Rendered
    \/ Forget

SpecCanvas == InitCanvas /\ [][NextCanvas]_vars

(***************************************************************************)
(* Spec: msp_dp_render_png.py run().  One action is one iteration of the   *)
(* while loop: the read, the parse, the dispatch and, for draw-screen, the *)
(* gate and the render.                                                    *)
(***************************************************************************)
MSP_DISPLAYPORT == 182      \* 0xB6
DP_HEARTBEAT    == 0
DP_RELEASE      == 1
DP_CLEAR_SCREEN == 2
DP_WRITE_STRING == 3
DP_DRAW_SCREEN  == 4

FpsArgs == {0, 10}                     \* values of the fps argument
Ticks   == {0, 50, 150}                \* ms between two datagrams
RecvTimeout == 200                     \* sock.settimeout(0.2), ms

\* a well-formed frame as the flight controller sends it
WireFrame(direction, cmd, payload) ==
    direction \o <<Len(payload), cmd>> \o payload
              \o <<XorFold(Xor(Len(payload), cmd) % 256, payload)>>

\* the same frame with a wrong checksum byte
BadChecksum(frame) ==
    [frame EXCEPT ![Len(frame)] = Xor(frame[Len(frame)], 255)]

DrawFrame  == WireFrame(DirResponse, MSP_DISPLAYPORT, <<DP_DRAW_SCREEN>>)
WriteA_5_2 == WireFrame(DirResponse, MSP_DISPLAYPORT, <<DP_WRITE_STRING, 5, 2, 65, 0>>)

Datagrams ==
    { DrawFrame,
      WriteA_5_2,
      WireFrame(DirResponse, MSP_DISPLAYPORT, <<DP_WRITE_STRING, 5, 2, 0, 65, 0>>),
      WireFrame(DirResponse, MSP_DISPLAYPORT, <<DP_WRITE_STRING, 6, 0, 0, 65>>),
      WireFrame(DirResponse, MSP_DISPLAYPORT, <<DP_WRITE_STRING, 5, 2>>),
      WireFrame(DirResponse, MSP_DISPLAYPORT, <<DP_CLEAR_SCREEN>>),
      WireFrame(DirResponse, MSP_DISPLAYPORT, <<DP_RELEASE>>),
      WireFrame(DirResponse, MSP_DISPLAYPORT, <<DP_HEARTBEAT>>),
      WireFrame(DirResponse, MSP_DISPLAYPORT, <<9>>),
      WireFrame(DirResponse, MSP_DISPLAYPORT, <<>>),
      WireFrame(DirResponse, 102, <<DP_DRAW_SCREEN>>),
      BadChecksum(DrawFrame),
      SubSeq(DrawFrame, 1, 6) }

Max(a, b) == IF a > b THEN a ELSE b

\* faulty variant: fps is taken as the interval
min_frame_dt_is_fps(fps_arg) == Max(1, fps_arg)

\* min_frame_dt = 1.0 / max(1.0, fps), in ms
min_frame_dt(fps_arg) == 1000 \div Max(1, fps_arg)

\* faulty variant: the gate does not look at the clock
Gate_no_throttle(self, t, last) == self.dirty

\* if canvas.dirty and (now - last_write_ts) >= min_frame_dt
Gate(self, t, last) == self.dirty /\ (t - last) >= min_frame_dt(fps)

\* faulty variant: the loop does not test frame.csum_ok
Dropped_no_csum_test(frame) ==
    IF frame = None THEN TRUE
    ELSE IF frame.cmd # MSP_DISPLAYPORT THEN TRUE
    ELSE frame.payload = <<>>

\* not frame or not frame.csum_ok or frame.cmd != MSP_DISPLAYPORT or not frame.payload
Dropped(frame) ==
    IF frame = None THEN TRUE
    ELSE IF ~frame.csum_ok THEN TRUE
    ELSE IF frame.cmd # MSP_DISPLAYPORT THEN TRUE
    ELSE frame.payload = <<>>

\* frame = parse_msp_v1(data), for each datagram the socket may deliver
FrameOf == [d \in Datagrams |-> parse_msp_v1(d)]

\* data, _ = sock.recvfrom(4096), dt ms after the previous iteration
Recv(d, dt) ==
    /\ now + dt <= StartTime + MaxElapsed
    /\ now' = now + dt
    /\ dgram' = d
    /\ IF fresh /\ Len(hist) < MaxHist
       THEN hist' = Append(hist, [data |-> d, t |-> now + dt]) /\ fresh' = TRUE
       ELSE hist' = <<>> /\ fresh' = FALSE
    /\ UNCHANGED <<fps, codecVars, tcanvas, calls, pre, tpre, extraVars>>

Timeout ==
    /\ now + RecvTimeout <= StartTime + MaxElapsed
    /\ now' = now + RecvTimeout
    /\ branch' = "timeout"
    /\ UNCHANGED <<canvas, last_write_ts, fps, images, out, dgram, hist, fresh>>
    /\ UNCHANGED gate_dirty
    /\ UNCHANGED <<codecVars, tcanvas, calls, pre, tpre, extraVars>>

Discard(d, dt) ==
    /\ Dropped(FrameOf[d])
    /\ Recv(d, dt)
    /\ branch' = "discard"
    /\ UNCHANGED <<canvas, last_write_ts, images, out, gate_dirty>>

Heartbeat(d, dt) ==
    LET frame == FrameOf[d] IN
    /\ ~Dropped(frame)
    /\ frame.payload[1] = DP_HEARTBEAT
    /\ Recv(d, dt)
    /\ branch' = "heartbeat"
    /\ UNCHANGED <<canvas, last_write_ts, images, out, gate_dirty>>

ClearScreen(d, dt) ==
    LET frame == FrameOf[d] IN
    /\ ~Dropped(frame)
    /\ frame.payload[1] \in {DP_RELEASE, DP_CLEAR_SCREEN}
    /\ Recv(d, dt)
    /\ canvas' = clear(canvas)
    /\ branch' = "clear"
    /\ UNCHANGED <<last_write_ts, images, out, gate_dirty>>

WriteString(d, dt) ==
    LET frame == FrameOf[d] IN
    /\ ~Dropped(frame)
    /\ frame.payload[1] = DP_WRITE_STRING /\ Len(frame.payload) >= 4
    /\ Recv(d, dt)
    /\ LET row  == frame.payload[2]
           col  == frame.payload[3]
           rest == Slice(frame.payload, 3, Len(frame.payload))
       IN  canvas' = write_string(canvas, row, col, rest)
    /\ branch' = "write"
    /\ UNCHANGED <<last_write_ts, images, out, gate_dirty>>

DrawScreen(d, dt) ==
    LET frame == FrameOf[d] IN
    /\ ~Dropped(frame)
    /\ frame.payload[1] = DP_DRAW_SCREEN
    /\ canvas.frame < MaxFrame
    /\ Recv(d, dt)
    /\ branch' = "draw"
    /\ gate_dirty' = draw(canvas).dirty
    /\ LET drawn == draw(canvas) IN
       IF Gate(drawn, now + dt, last_write_ts)
       THEN /\ out' = <<drawn.grid>>                    \* renderer.render
            /\ images' = images + 1
            /\ canvas' = [drawn EXCEPT !.dirty = FALSE]
            /\ last_write_ts' = now + dt
       ELSE /\ canvas' = drawn
            /\ UNCHANGED <<last_write_ts, images, out>>

\* no branch of the dispatch applies: the frame is ignored
Ignored(d, dt) ==
    LET frame == FrameOf[d] IN
    /\ ~Dropped(frame)
    /\ frame.payload[1] \notin {DP_HEARTBEAT, DP_RELEASE, DP_CLEAR_SCREEN, DP_DRAW_SCREEN}
    /\ ~(frame.payload[1] = DP_WRITE_STRING /\ Len(frame.payload) >= 4)
    /\ Recv(d, dt)
    /\ branch' = "ignored"
    /\ UNCHANGED <<canvas, last_write_ts, images, out, gate_dirty>>

Init ==
    /\ CodecInit
    /\ CanvasInit(6, 3)
    /\ now = StartTime
    /\ last_write_ts = 0
    /\ fps \in FpsArgs
    /\ images = 0
    /\ out = <<>>
    /\ dgram = <<>>
    /\ hist = <<>>
    /\ fresh = TRUE
    /\ branch = "start"
    /\ gate_dirty = TRUE
    /\ ExtraIdle

Next ==
    \/ Timeout
    \/ \E d \in Datagrams, dt \in Ticks : Discard(d, dt)
    \/ \E d \in Datagrams, dt \in Ticks : Heartbeat(d, dt)
    \/ \E d \in Datagrams, dt \in Ticks : ClearScreen(d, dt)
    \/ \E d \in Datagrams, dt \in Ticks : WriteString(d, dt)
    \/ \E d \in Datagrams, dt \in Ticks : DrawScreen(d, dt)
    \/ \E d \in Datagrams, dt \in Ticks : Ignored(d, dt)

Spec == Init /\ [][Next]_vars

(***************************************************************************)
(* SpecTui: the terminal loop of msp_dp_tui.py.  One action is one         *)
(* iteration of while True: the key poll, recvfrom, the dispatch, and the  *)
(* once-a-second refresh that ends the iteration.  The packet counters of  *)
(* the header line are not part of the model.                              *)
(***************************************************************************)
TuiMaxElapsed == 1200  \* the clock runs at most this many ms past its start
TuiTicks      == {0, 100}
RenderHold    == 50    \* render(): (now - last_render) < 0.05
InfoPeriod    == 1000  \* run(): time.time() - last_info > 1.0

\* what render() reads and writes: [canvas, last_render, screen, shown]
TuiState(self, lr, scr, sh) ==
    [canvas |-> self, last_render |-> lr, screen |-> scr, shown |-> sh]

\* render(force) at time t
Tui_render(st, force, t) ==
    IF ~force /\ (t - st.last_render) < RenderHold /\ ~st.canvas.dirty THEN st
    ELSE TuiState([st.canvas EXCEPT !.dirty = FALSE], t, st.canvas.grid, TRUE)

\* faulty variant: a heartbeat clears the canvas
Tui_dispatch_heartbeat_clears(self, payload) ==
    LET sub == payload[1] IN
    IF sub \in {DP_HEARTBEAT, DP_RELEASE, DP_CLEAR_SCREEN} THEN Canvas_clear(self)
    ELSE IF sub = DP_WRITE_STRING
         THEN IF Len(payload) >= 4
              THEN Canvas_write_string(self, payload[2], payload[3],
                                       Slice(payload, 3, Len(payload)))
              ELSE self
    ELSE IF sub = DP_DRAW_SCREEN THEN Canvas_draw(self)
    ELSE self

\* the if/elif chain on sub = f.payload[0], up to canvas.draw()
Tui_dispatch(self, payload) ==
    LET sub == payload[1] IN
    IF sub = DP_HEARTBEAT THEN self
    ELSE IF sub = DP_RELEASE THEN Canvas_clear(self)
    ELSE IF sub = DP_CLEAR_SCREEN THEN Canvas_clear(self)
    ELSE IF sub = DP_WRITE_STRING
         THEN IF Len(payload) >= 4
              THEN Canvas_write_string(self, payload[2], payload[3],
                                       Slice(payload, 3, Len(payload)))
              ELSE self
    ELSE IF sub = DP_DRAW_SCREEN THEN Canvas_draw(self)
    ELSE self

Tui_branch(payload) ==
    LET sub == payload[1] IN
    IF sub = DP_HEARTBEAT THEN "heartbeat"
    ELSE IF sub \in {DP_RELEASE, DP_CLEAR_SCREEN} THEN "clear"
    ELSE IF sub = DP_WRITE_STRING /\ Len(payload) >= 4 THEN "write"
    ELSE IF sub = DP_DRAW_SCREEN THEN "draw"
    ELSE "ignored"

notTuiVars ==
    <<codecVars, canvas, calls, pre, tpre,
      last_write_ts, fps, images, out, hist, fresh, gate_dirty, streamVars,
      commitVars>>

\* except socket.timeout: render(); continue
TuiTimeout ==
    /\ branch # "quit"
    /\ now + RecvTimeout <= StartTime + TuiMaxElapsed
    /\ now' = now + RecvTimeout
    /\ branch' = "timeout"
    /\ LET st == Tui_render(TuiState(tcanvas, last_render, screen, FALSE),
                            FALSE, now + RecvTimeout)
       IN  /\ tcanvas' = st.canvas
           /\ last_render' = st.last_render
           /\ screen' = st.screen
           /\ shown' = st.shown
    /\ UNCHANGED <<dgram, last_info, notTuiVars>>

\* one of the four continue statements before the dispatch
TuiDiscard(d, dt) ==
    /\ branch # "quit"
    /\ Dropped(FrameOf[d])
    /\ now + dt <= StartTime + TuiMaxElapsed
    /\ now' = now + dt
    /\ dgram' = d
    /\ branch' = "discard"
    /\ shown' = FALSE
    /\ UNCHANGED <<tcanvas, last_render, last_info, screen, notTuiVars>>

\* the dispatch on sub, render(force=True) after draw(), then the refresh
\* that runs once InfoPeriod has passed since last_info
TuiDispatch(d, dt) ==
    LET frame == FrameOf[d]
        t     == now + dt
    IN  /\ branch # "quit"
        /\ ~Dropped(frame)
        /\ t <= StartTime + TuiMaxElapsed
        /\ (frame.payload[1] = DP_DRAW_SCREEN) => tcanvas.frame < MaxFrame
        /\ now' = t
        /\ dgram' = d
        /\ branch' = Tui_branch(frame.payload)
        /\ LET st0 == TuiState(Tui_dispatch(tcanvas, frame.payload),
                               last_render, screen, FALSE)
               st1 == IF frame.payload[1] = DP_DRAW_SCREEN
                      THEN Tui_render(st0, TRUE, t) ELSE st0
               due == t - last_info > InfoPeriod
               st2 == IF due THEN Tui_render(st1, FALSE, t) ELSE st1
           IN  /\ tcanvas' = st2.canvas
               /\ last_render' = st2.last_render
               /\ screen' = st2.screen
               /\ shown' = st2.shown
               /\ last_info' = IF due THEN t ELSE last_info
        /\ UNCHANGED notTuiVars

\* ch in (ord('q'), ord('Q')): break
TuiQuit ==
    /\ branch # "quit"
    /\ branch' = "quit"
    /\ UNCHANGED <<now, dgram, tcanvas, tuiVars, notTuiVars>>

InitTui ==
    /\ CodecInit
    /\ CanvasInit(6, 3)
    /\ now = StartTime
    /\ last_write_ts = 0
    /\ fps = 0
    /\ images = 0
    /\ out = <<>>
    /\ dgram = <<>>
    /\ hist = <<>>
    /\ fresh = FALSE
    /\ branch = "start"
    /\ gate_dirty = TRUE
    /\ last_render = 0
    /\ last_info = StartTime
    /\ screen = <<>>
    /\ shown = FALSE
    /\ StreamIdle
    /\ CommitIdle

NextTui ==
    \/ TuiTimeout
    \/ \E d \in Datagrams, dt \in TuiTicks : TuiDiscard(d, dt)
    \/ \E d \in Datagrams, dt \in TuiTicks : TuiDispatch(d, dt)
    \/ TuiQuit

SpecTui == InitTui /\ [][NextTui]_vars

(***************************************************************************)
(* SpecStream: one call of read_one_msp_reply (msp_dp_forward.py) on a     *)
(* serial line opened with a read timeout.  ser.read(n) returns the next   *)
(* k <= n bytes of the stream: all n when they are there in time, fewer    *)
(* (down to none) when the timeout expires first.  One action is one       *)
(* ser.read call with the statements up to the next one.                   *)
(***************************************************************************)
MaxNoise == 2      \* longest noise prefix before a frame on the short streams
MaxReply == 2      \* longest payload of a frame on the serial line
BufLimit == 4096   \* if len(buf) > 4096
BufKeep  == 64     \* buf = buf[-64:]

Marker == <<36, 77, 62>>               \* b"$M>"

NoiseBytes == {0, 36, 77}
ReplyBytes == {7, 36}
ReplyCmd   == 1                        \* 0x01, the first request main() sends

\* n bytes of noise with no marker in them: $ M 00 $ M 00 ...
Noise(n) == [i \in 1 .. n |-> <<0, 36, 77>>[(i % 3) + 1]]

ReplyFrames == {WireFrame(Marker, ReplyCmd, p) : p \in SeqsUpTo(ReplyBytes, MaxReply)}

\* noise, one reply frame, then nothing or the start of the next frame
ShortStreams ==
    {n \o f \o t : n \in SeqsUpTo(NoiseBytes, MaxNoise), f \in ReplyFrames,
                   t \in {<<>>, <<36, 77, 62, 0>>}}

\* noise that fills buf past its limit, alone or with a reply frame whose
\* marker ends before, at or after the byte that makes buf exceed the limit
LongStreams ==
    {Noise(BufLimit + 3)} \cup
    {Noise(n) \o WireFrame(Marker, ReplyCmd, <<>>) :
        n \in BufLimit - 3 .. BufLimit + 1}

Streams == ShortStreams \cup LongStreams

\* on a long stream the call is also taken up after its first Scanned
\* iterations, each of which has appended one noise byte to buf
Scanned == BufLimit - 4

\* buf[-3:] == b"$M>"
EndsWithMarker(b) ==
    Len(b) >= 3 /\ SubSeq(b, Len(b) - 2, Len(b)) = Marker

\* faulty variant: the cut keeps one byte
Trim_keeps_one(b) ==
    IF Len(b) > BufLimit THEN SubSeq(b, Len(b), Len(b)) ELSE b

\* if len(buf) > 4096: buf = buf[-64:]
Trim(b) ==
    IF Len(b) > BufLimit THEN SubSeq(b, Len(b) - BufKeep + 1, Len(b)) ELSE b

\* the bytes ser.read returns when k bytes are there before its timeout
Take(k) == SubSeq(stream, spos + 1, spos + k)

Remaining == Len(stream) - spos

notStreamVars == <<codecVars, canvasVars, loopVars, tuiVars, commitVars>>

\* b = ser.read(1) returned a byte: buf += b, the marker test, the cut
ScanByte ==
    /\ rpc = "scan"
    /\ Remaining >= 1
    /\ spos' = spos + 1
    /\ LET grown == Append(sbuf, stream[spos + 1])
       IN  IF Len(grown) >= 3 /\ EndsWithMarker(grown)
           THEN sbuf' = grown /\ rpc' = "ln"
           ELSE sbuf' = Trim(grown) /\ rpc' = "scan"
    /\ UNCHANGED <<stream, ln_b, cmd_b, rpayload, reply, notStreamVars>>

\* b = ser.read(1) timed out: continue
ScanIdle ==
    /\ rpc = "scan"
    /\ UNCHANGED <<streamVars, notStreamVars>>

\* while time.time() < end is false: return None
Deadline ==
    /\ rpc = "scan"
    /\ rpc' = "done"
    /\ reply' = None
    /\ sbuf' = <<>>
    /\ UNCHANGED <<stream, spos, ln_b, cmd_b, rpayload, notStreamVars>>

\* ln_b = ser.read(1)
ReadLn(k) ==
    /\ rpc = "ln"
    /\ k <= Remaining
    /\ ln_b' = Take(k)
    /\ spos' = spos + k
    /\ rpc' = "cmd"
    /\ UNCHANGED <<stream, sbuf, cmd_b, rpayload, reply, notStreamVars>>

\* cmd_b = ser.read(1); if not ln_b or not cmd_b: return None
ReadCmd(k) ==
    /\ rpc = "cmd"
    /\ k <= Remaining
    /\ cmd_b' = Take(k)
    /\ spos' = spos + k
    /\ IF ln_b = <<>> \/ k = 0
       THEN rpc' = "done" /\ reply' = None /\ sbuf' = <<>>
       ELSE rpc' = "payload" /\ UNCHANGED <<reply, sbuf>>
    /\ UNCHANGED <<stream, ln_b, rpayload, notStreamVars>>

\* payload = ser.read(ln)
ReadPayload(k) ==
    /\ rpc = "payload"
    /\ k <= ln_b[1]
    /\ k <= Remaining
    /\ rpayload' = Take(k)
    /\ spos' = spos + k
    /\ rpc' = "csum"
    /\ UNCHANGED <<stream, sbuf, ln_b, cmd_b, reply, notStreamVars>>

\* csum = ser.read(1); if not csum: return None;
\* return b"$M>" + ln_b + cmd_b + payload + csum
ReadCsum(k) ==
    /\ rpc = "csum"
    /\ k <= Remaining
    /\ spos' = spos + k
    /\ rpc' = "done"
    /\ sbuf' = <<>>
    /\ reply' = IF k = 0 THEN None
                ELSE Marker \o ln_b \o cmd_b \o rpayload \o Take(k)
    /\ UNCHANGED <<stream, ln_b, cmd_b, rpayload, notStreamVars>>

InitStream ==
    /\ CodecInit
    /\ CanvasInit(1, 1)
    /\ LoopIdle
    /\ TuiIdle
    /\ CommitIdle
    /\ stream \in Streams
    /\ spos \in (IF stream \in LongStreams THEN {0, Scanned} ELSE {0})
    /\ sbuf = SubSeq(stream, 1, spos)
    /\ rpc = "scan"
    /\ ln_b = <<>>
    /\ cmd_b = <<>>
    /\ rpayload = <<>>
    /\ reply = None

NextStream ==
    \/ ScanByte
    \/ ScanIdle
    \/ Deadline
    \/ \E k \in 0 .. 1 : ReadLn(k)
    \/ \E k \in 0 .. 1 : ReadCmd(k)
    \/ \E k \in 0 .. 255 : ReadPayload(k)
    \/ \E k \in 0 .. 1 : ReadCsum(k)

SpecStream == InitStream /\ [][NextStream]_vars

(***************************************************************************)
(* SpecCommit: OSDRenderer._save_atomic (msp_dp_render_png.py) writing     *)
(* one image after another, and a reader that opens the output path and    *)
(* reads it chunk by chunk, at any interleaving.  A file is an inode; a    *)
(* path names an inode; a reader keeps the inode it opened.  image.save    *)
(* writes the image in chunks and may fail at any point; replace is one    *)
(* atomic step.                                                            *)
(***************************************************************************)
MaxImages == 3     \* _save_atomic is called at most this many times
Chunks    == 3     \* image.save writes an image in this many chunks

OutPath == "out"                       \* output_path

\* faulty variant: the image is saved straight onto the output path
SaveTarget_is_output == OutPath

\* tmp_path = output_path.with_suffix(output_path.suffix + ".tmp")
SaveTarget == "tmp"

\* the data of the n-th image, chunk by chunk
ImageData(n) == [i \in 1 .. Chunks |-> <<n, i>>]

notCommitVars == <<codecVars, canvasVars, loopVars, tuiVars, streamVars>>

\* image.save(tmp_path) opens the file for writing: an existing file is
\* truncated, a missing one is created
SaveOpen ==
    /\ wpc = "idle"
    /\ committed < MaxImages
    /\ IF dir[SaveTarget] # 0
       THEN /\ wfd' = dir[SaveTarget]
            /\ files' = [files EXCEPT ![dir[SaveTarget]] = <<>>]
            /\ dir' = dir
       ELSE /\ wfd' = Len(files) + 1
            /\ files' = Append(files, <<>>)
            /\ dir' = [dir EXCEPT ![SaveTarget] = Len(files) + 1]
    /\ wpc' = "writing"
    /\ UNCHANGED <<committed, rdpc, rfd, rgot, ropened, notCommitVars>>

\* image.save writes the next chunk, and closes the file after the last
SaveWrite ==
    /\ wpc = "writing"
    /\ files' = [files EXCEPT ![wfd] = Append(@, <<committed + 1, Len(@) + 1>>)]
    /\ wpc' = IF Len(files[wfd]) + 1 = Chunks THEN "written" ELSE "writing"
    /\ UNCHANGED <<dir, committed, wfd, rdpc, rfd, rgot, ropened, notCommitVars>>

\* image.save raises: _save_atomic, render and run are left by the exception
SaveFail ==
    /\ wpc = "writing"
    /\ wpc' = "failed"
    /\ UNCHANGED <<dir, files, committed, wfd, rdpc, rfd, rgot, ropened, notCommitVars>>

\* tmp_path.replace(output_path)
Replace ==
    /\ wpc = "written"
    /\ dir' = IF SaveTarget = OutPath THEN dir
              ELSE [dir EXCEPT ![OutPath] = dir[SaveTarget], ![SaveTarget] = 0]
    /\ committed' = committed + 1
    /\ wpc' = "idle"
    /\ UNCHANGED <<files, wfd, rdpc, rfd, rgot, ropened, notCommitVars>>

\* the reader opens the output path
ReadOpen ==
    /\ rdpc = "idle"
    /\ IF dir[OutPath] = 0
       THEN rdpc' = "absent" /\ rfd' = 0
       ELSE rdpc' = "reading" /\ rfd' = dir[OutPath]
    /\ rgot' = <<>>
    /\ ropened' = committed
    /\ UNCHANGED <<dir, files, committed, wpc, wfd, notCommitVars>>

\* the reader reads the next chunk of the file it opened, or meets its end
ReadChunk ==
    /\ rdpc = "reading"
    /\ IF Len(rgot) < Len(files[rfd])
       THEN rgot' = Append(rgot, files[rfd][Len(rgot) + 1]) /\ rdpc' = "reading"
       ELSE rgot' = rgot /\ rdpc' = "done"
    /\ UNCHANGED <<dir, files, committed, wpc, wfd, rfd, ropened, notCommitVars>>

\* the reader polls the output path again
ReadAgain ==
    /\ rdpc \in {"done", "absent"}
    /\ rdpc' = "idle"
    /\ rfd' = 0
    /\ rgot' = <<>>
    /\ UNCHANGED <<dir, files, committed, wpc, wfd, ropened, notCommitVars>>

InitCommit ==
    /\ CodecInit
    /\ CanvasInit(1, 1)
    /\ LoopIdle
    /\ TuiIdle
    /\ StreamIdle
    /\ CommitIdle

NextCommit ==
    \/ SaveOpen
    \/ SaveWrite
    \/ SaveFail
    \/ Replace
    \/ ReadOpen
    \/ ReadChunk
    \/ ReadAgain

SpecCommit == InitCommit /\ [][NextCommit]_vars

(***************************************************************************)
(* Claims about the frame codec (checked under SpecCodec)                  *)
(***************************************************************************)
Parsed == cpc = "parsed"

\* the bytes on the wire, read at the offsets of the frame format
WireMarker   == Slice(buf, 0, 3)
WireLength   == buf[4]
WireCommand  == buf[5]
WirePayload  == SubSeq(buf, 6, 5 + WireLength)
WireChecksum == buf[6 + WireLength]
WireComplete ==
    /\ Len(buf) >= 6
    /\ WireMarker \in Directions
    /\ Len(buf) >= 3 + 1 + 1 + WireLength + 1
WireIncomplete ==
    \/ Len(buf) < 6
    \/ /\ WireMarker \in Directions
       /\ Len(buf) < 3 + 1 + 1 + WireLength + 1
WireBadMarker == Len(buf) >= 3 /\ WireMarker \notin Directions

\* what parse_msp_v1 returns for a buffer that is too short to hold a frame
IncompleteOutcome == parse_msp_v1(SubSeq(msp_v1(0, <<>>), 1, 5))

\* C1: round trip: parsing the frame msp_v1(c, p) built gives a frame with
\* cmd = c, payload = p byte for byte, and csum_ok true.
C1_RoundTrip ==
    (Parsed /\ intact) =>
        /\ res.kind = "frame"
        /\ res.cmd = sent.cmd
        /\ res.payload = sent.payload
        /\ res.csum_ok = TRUE

C1_Witness ==
    /\ Parsed /\ intact
    /\ sent.cmd = 182 /\ Len(sent.payload) = 2 /\ sent.payload[1] # sent.payload[2]
    /\ res.kind = "frame"

\* C2: a structurally complete frame whose checksum byte is wrong is still
\* returned as a frame, with the direction, cmd and payload on the wire, a
\* payload as long as the length byte says, and csum_ok false.
C2_BadChecksumReturned ==
    (Parsed /\ WireComplete
            /\ WireChecksum # XorFold(Xor(WireLength, WireCommand), WirePayload)) =>
        /\ res = MSPv1Frame(WireMarker, WireCommand, WirePayload, FALSE)
        /\ Len(res.payload) = WireLength

C2_Witness ==
    /\ Parsed /\ WireComplete
    /\ WireLength >= 1
    /\ WireChecksum # XorFold(Xor(WireLength, WireCommand), WirePayload)
    /\ res.kind = "frame" /\ ~res.csum_ok

\* C3: a buffer shorter than 6 bytes, or one that starts with a marker but is
\* shorter than 3 + 1 + 1 + L + 1 bytes, gives the incomplete outcome (None):
\* never a frame, never an error.
C3_IncompleteIsNone ==
    (Parsed /\ WireIncomplete) => res = None

C3_Witness ==
    /\ Parsed
    /\ Len(buf) >= 6 /\ WireMarker \in Directions
    /\ Len(buf) < 3 + 1 + 1 + WireLength + 1
    /\ res = None

\* C4 as stated: a buffer whose first three bytes are no marker gives a
\* "not a frame" outcome that differs from the incomplete outcome.
C4_NotAFrameDistinct ==
    (Parsed /\ WireBadMarker) => (res.kind # "frame" /\ res # IncompleteOutcome)

\* C4 amended: a buffer whose first three bytes are no marker makes
\* parse_msp_v1 return None, the very value it returns for an incomplete
\* buffer, and the buffer is left as it was.
C4_NotAFrameIsNone ==
    [][(cpc = "built" /\ cpc' = "parsed" /\ WireBadMarker) =>
          (res' = None /\ res' = IncompleteOutcome /\ buf' = buf)]_vars

C4_Witness == Parsed /\ Len(buf) >= 6 /\ WireBadMarker /\ res = None

(***************************************************************************)
(* Claims about the canvases (checked under SpecCanvas)                    *)
(***************************************************************************)
\* the one call made since pre was taken is write_string
Wrote == Len(calls) = 1 /\ calls[1].name = "write_string"
WRow  == calls[1].row
WCol  == calls[1].col
WData == calls[1].data

InBounds(row, col) ==
    /\ 0 <= row /\ row < pre.rows
    /\ 0 <= col /\ col < pre.cols

\* the bytes of data after the attribute byte
AfterAttr(data) == [i \in 1 .. Len(data) - 1 |-> data[i + 1]]

\* the number of bytes of s before its first zero byte (all of s if none)
UpToZero(s) ==
    CHOOSE k \in 0 .. Len(s) :
        /\ \A i \in 1 .. k : s[i] # 0
        /\ k = Len(s) \/ s[k + 1] = 0

Min(a, b) == IF a < b THEN a ELSE b

\* C5: write_string with row or col out of bounds (on either side) changes
\* nothing: every cell, dirty and frame keep their values, on both canvases.
C5_OutOfBoundsNoOp ==
    (Wrote /\ ~InBounds(WRow, WCol)) => (canvas = pre /\ tcanvas = tpre)

C5_Witness ==
    /\ Wrote /\ WRow \in 0 .. pre.rows - 1 /\ WCol = pre.cols
    /\ Len(WData) >= 2 /\ WData[2] # 0
    /\ ~pre.dirty
    /\ canvas = pre

\* C6: an in-bounds write_string whose string part has n bytes writes exactly
\* the cells (row, col) .. (row, col + min(n, cols - col) - 1), in order,
\* and no other cell of the grid changes (no wraparound, no index fault).
C6_TruncatesAtRightEdge ==
    (Wrote /\ InBounds(WRow, WCol)) =>
        LET s == AfterAttr(WData)
            n == UpToZero(s)
            k == Min(n, pre.cols - WCol)
        IN  /\ DOMAIN canvas.grid = 0 .. pre.rows - 1
            /\ \A r \in 0 .. pre.rows - 1 :
                 /\ DOMAIN canvas.grid[r] = 0 .. pre.cols - 1
                 /\ \A c \in 0 .. pre.cols - 1 :
                      IF r = WRow /\ WCol <= c /\ c < WCol + k
                      THEN /\ canvas.grid[r][c] = IntCell(s[c - WCol + 1])
                           /\ tcanvas.grid[r][c] = _safe_ascii(s[c - WCol + 1])
                      ELSE /\ canvas.grid[r][c] = pre.grid[r][c]
                           /\ tcanvas.grid[r][c] = tpre.grid[r][c]

C6_Witness ==
    /\ Wrote /\ InBounds(WRow, WCol)
    /\ pre.rows >= 2 /\ WCol >= 1
    /\ UpToZero(AfterAttr(WData)) > pre.cols - WCol
    /\ \E r \in 0 .. pre.rows - 1 : r # WRow /\ pre.grid[r][0] # Blank
    /\ canvas.grid[WRow][WCol] = IntCell(WData[2])

\* C7: the first byte of data is an attribute byte and is never written; a
\* zero byte after it ends the string: the cells from the zero byte's
\* position on keep their previous values.
C7_AttributeAndTerminator ==
    (Wrote /\ InBounds(WRow, WCol) /\ WData # <<>>) =>
        LET z == UpToZero(AfterAttr(WData))
        IN  \A c \in 0 .. pre.cols - 1 :
              /\ (WCol <= c /\ c < WCol + z) =>
                     canvas.grid[WRow][c] = IntCell(WData[c - WCol + 2])
              /\ (c >= WCol + z) =>
                     /\ canvas.grid[WRow][c] = pre.grid[WRow][c]
                     /\ tcanvas.grid[WRow][c] = tpre.grid[WRow][c]

C7_Witness ==
    /\ Wrote /\ InBounds(WRow, WCol)
    /\ Len(WData) = 3 /\ WData[1] # 0 /\ WData[2] = 0 /\ WData[3] # 0
    /\ WCol + 1 < pre.cols
    /\ pre.grid[WRow][WCol] # Blank
    /\ canvas.grid = pre.grid

\* C8: from any canvas state, clear() followed by draw() gives a canvas whose
\* cells are all blank, that is dirty, whose frame counter is one more than
\* before, and whose grid still has rows x cols cells.
C8_ClearThenDraw ==
    (Len(calls) = 2 /\ calls[1].name = "clear" /\ calls[2].name = "draw") =>
        /\ canvas.rows = pre.rows /\ canvas.cols = pre.cols
        /\ DOMAIN canvas.grid = 0 .. pre.rows - 1
        /\ \A r \in 0 .. pre.rows - 1 :
             /\ DOMAIN canvas.grid[r] = 0 .. pre.cols - 1
             /\ \A c \in 0 .. pre.cols - 1 : canvas.grid[r][c] = Blank
        /\ canvas.dirty = TRUE
        /\ canvas.frame = pre.frame + 1

C8_Witness ==
    /\ Len(calls) = 2 /\ calls[1].name = "clear" /\ calls[2].name = "draw"
    /\ ~pre.dirty /\ pre.frame >= 1
    /\ \E r \in 0 .. pre.rows - 1, c \in 0 .. pre.cols - 1 : pre.grid[r][c] # Blank
    /\ canvas.frame = pre.frame + 1

(***************************************************************************)
(* Claims about the render loop (checked under Spec)                       *)
(***************************************************************************)
\* the datagram is one the loop dispatches as draw-screen
IsDrawScreen(d) ==
    LET frame == parse_msp_v1(d)
    IN  /\ frame # None
        /\ frame.csum_ok
        /\ frame.cmd = MSP_DISPLAYPORT
        /\ frame.payload # <<>>
        /\ frame.payload[1] = DP_DRAW_SCREEN

\* the times at which the draw-screen datagrams of hist were processed
DrawTimes ==
    LET draws == SelectSeq(hist, LAMBDA e : IsDrawScreen(e.data))
    IN  [i \in 1 .. Len(draws) |-> draws[i].t]

\* C9: with fps = 10, when the session has processed exactly two draw-screen
\* frames, 50 ms apart gives exactly one committed image and 150 ms apart
\* gives exactly two.
C9_Throttle ==
    (fresh /\ fps = 10 /\ Len(DrawTimes) = 2) =>
        /\ (DrawTimes[2] - DrawTimes[1] = 50) => images = 1
        /\ (DrawTimes[2] - DrawTimes[1] = 150) => images = 2

C9_Witness ==
    /\ fresh /\ fps = 10 /\ Len(DrawTimes) = 2
    /\ DrawTimes[2] - DrawTimes[1] = 50
    /\ images = 1

C9_WitnessTwo ==
    /\ fresh /\ fps = 10 /\ Len(DrawTimes) = 2
    /\ DrawTimes[2] - DrawTimes[1] = 150
    /\ images = 2

\* a fresh canvas has processed $M> 05 B6 03 05 02 41 00 <csum>, then a valid
\* draw-screen frame, and nothing else
EndToEndDone ==
    /\ fresh /\ Len(hist) = 2
    /\ hist[1].data = DirResponse \o <<5, 182, 3, 5, 2, 65, 0>>
                                  \o <<XorFold(Xor(5, 182), <<3, 5, 2, 65, 0>>)>>
    /\ IsDrawScreen(hist[2].data)

\* C10 as stated: after that input cell (5,2) holds 'A', every other cell of
\* row 5 is blank, and that canvas has been rendered once.
C10_EndToEndShowsA ==
    EndToEndDone =>
        /\ canvas.grid[5][2] = IntCell(65)
        /\ \A c \in 0 .. canvas.cols - 1 : c # 2 => canvas.grid[5][c] = Blank
        /\ images = 1
        /\ out = <<canvas.grid>>

\* C10 amended: after that input every cell of row 5 is blank, cell (5,2)
\* included (0x41 is taken as the attribute byte, the string after it is
\* empty), and that canvas has been rendered once.
C10_EndToEndRowBlank ==
    EndToEndDone =>
        /\ \A c \in 0 .. canvas.cols - 1 : canvas.grid[5][c] = Blank
        /\ images = 1
        /\ out = <<canvas.grid>>

C10_Witness ==
    /\ EndToEndDone
    /\ canvas.grid = BlankGrid(canvas.rows, canvas.cols)
    /\ canvas.frame = 1 /\ ~canvas.dirty
    /\ images = 1

\* the datagram is one the loop must not let reach the canvas: it does not
\* parse, its checksum is wrong, its command is not 0xB6, or its payload is empty
NotForCanvas(d) ==
    LET frame == parse_msp_v1(d)
    IN  IF frame = None THEN TRUE
        ELSE IF ~frame.csum_ok THEN TRUE
        ELSE IF frame.cmd # 182 THEN TRUE
        ELSE Len(frame.payload) = 0

NotForCanvasSet == {d \in Datagrams : NotForCanvas(d)}

\* the iteration that has just ended received a datagram (it did not time
\* out, and the loop was not left)
Received(b) == b \notin {"start", "timeout", "quit"}

\* C13: an iteration that receives a datagram which does not parse, has a
\* wrong checksum, carries another command or has an empty payload leaves
\* the canvas (cells, dirty, frame) unchanged and renders nothing; whenever
\* the cells or the frame counter change, the datagram was none of these.
C13_OnlyValidFramesReachCanvas ==
    [][ /\ (Received(branch') /\ dgram' \in NotForCanvasSet) =>
              /\ canvas' = canvas
              /\ images' = images /\ out' = out
              /\ last_write_ts' = last_write_ts
        /\ (canvas' # canvas) =>
              (Received(branch') /\ dgram' \notin NotForCanvasSet)
      ]_vars

C13_Witness ==
    /\ branch = "discard"
    /\ dgram = BadChecksum(DrawFrame)
    /\ canvas.frame = 1 /\ images = 1 /\ ~canvas.dirty

\* the write-string datagram addresses a cell of the grid
WriteInBounds(d, self) ==
    LET frame == FrameOf[d]
    IN  /\ frame.payload[2] < self.rows
        /\ frame.payload[3] < self.cols

\* C14: in the render loop canvas.dirty goes from true to false only in an
\* iteration that processes a draw-screen frame and commits a render of the
\* canvas; clear, write-string, dropped draws, heartbeats, ignored frames,
\* discarded datagrams and timeouts never clear it; clear(), draw() and an
\* in-bounds write_string() with non-empty data set it to true.
C14_DirtyClearedOnlyByRender ==
    [][ /\ (canvas.dirty /\ ~canvas'.dirty) =>
              /\ branch' = "draw"
              /\ images' = images + 1
              /\ out' = <<canvas'.grid>>
              /\ last_write_ts' = now'
        /\ (branch' = "clear") => canvas'.dirty
        /\ (branch' = "write" /\ WriteInBounds(dgram', canvas)) => canvas'.dirty
        /\ (branch' = "draw") => gate_dirty'
        /\ (branch' = "draw" /\ images' = images) => canvas'.dirty
        /\ (branch' \in {"heartbeat", "ignored", "discard", "timeout"}) =>
              canvas'.dirty = canvas.dirty
      ]_vars

C14_Witness ==
    /\ branch = "clear"
    /\ images = 1 /\ canvas.frame = 1
    /\ canvas.dirty

\* C15: a render is committed only in an iteration that processes a
\* draw-screen frame, at least the minimum interval after the previous
\* committed render, and it shows the canvas as it is then; the time of the
\* last render moves to now on a render and stays where it was otherwise,
\* also when the gate drops a draw.
C15_RenderSpacing ==
    [][ /\ (images' # images) =>
              /\ images' = images + 1
              /\ branch' = "draw"
              /\ now' - last_write_ts >= min_frame_dt(fps)
              /\ last_write_ts' = now'
              /\ out' = <<canvas'.grid>>
        /\ (images' = images) =>
              /\ last_write_ts' = last_write_ts
              /\ out' = out
      ]_vars

\* one render has been committed and the draw-screen frame that came 50 ms
\* after it has been dropped
C15_Witness ==
    /\ fps = 10
    /\ images = 1
    /\ branch = "draw" /\ canvas.frame = 2 /\ canvas.dirty
    /\ now - last_write_ts = 50

\* a second render has been committed
C15_WitnessTwo ==
    /\ fps = 10
    /\ images = 2
    /\ branch = "draw" /\ last_write_ts = now

\* C19: when the loop evaluates the gate for a draw-screen frame canvas.dirty
\* is true, so a draw-screen frame processed at least the minimum interval
\* after the last committed render is rendered, whatever came between, and
\* the first draw-screen frame of a session is rendered.
C19_DirtyNeverBlocksRender ==
    [][ (branch' = "draw") =>
              /\ gate_dirty'
              /\ (now' - last_write_ts >= min_frame_dt(fps)) =>
                    /\ images' = images + 1
                    /\ out' = <<canvas'.grid>>
                    /\ ~canvas'.dirty
              /\ (images = 0) => images' = 1
      ]_vars

\* a draw rendered right after a render, with no clear or write between
C19_Witness ==
    /\ fresh /\ Len(hist) = 2
    /\ IsDrawScreen(hist[1].data) /\ IsDrawScreen(hist[2].data)
    /\ gate_dirty
    /\ images = 2 /\ canvas.frame = 2

\* the number of draw() calls among calls
DrawCalls == Cardinality({i \in 1 .. Len(calls) : calls[i].name = "draw"})

\* grid is rows lists of cols cells
HasShape(grid, rows, cols) ==
    /\ DOMAIN grid = 0 .. rows - 1
    /\ \A r \in 0 .. rows - 1 : DOMAIN grid[r] = 0 .. cols - 1

\* C16: over the calls made since pre (clear, write_string, draw, render) the
\* frame counter of either canvas has grown by exactly the number of draw()
\* calls, so it never decreases and nothing else changes it; the grid is
\* still rows lists of cols cells.
C16_FrameCounts ==
    /\ canvas.frame = pre.frame + DrawCalls
    /\ tcanvas.frame = tpre.frame + DrawCalls
    /\ canvas.frame >= 0
    /\ canvas.rows = pre.rows /\ canvas.cols = pre.cols
    /\ tcanvas.rows = tpre.rows /\ tcanvas.cols = tpre.cols
    /\ HasShape(canvas.grid, canvas.rows, canvas.cols)
    /\ HasShape(tcanvas.grid, tcanvas.rows, tcanvas.cols)

\* C16, in the render loop: the frame counter grows by one in every
\* iteration that processes a draw-screen frame, rendered or not, and in no
\* other; the grid keeps its shape.
C16_LoopFrameCounts ==
    [][ /\ (branch' = "draw") => canvas'.frame = canvas.frame + 1
        /\ (branch' # "draw") => canvas'.frame = canvas.frame
        /\ HasShape(canvas'.grid, canvas.rows, canvas.cols)
      ]_vars

C16_Witness ==
    /\ Len(calls) = 2
    /\ calls[1].name = "draw" /\ calls[2].name = "clear"
    /\ pre.frame = 1 /\ canvas.frame = 2 /\ tcanvas.frame = 2

\* C20: driven by the same calls, Canvas and MSPDPCanvas have equal frame
\* counters and dirty flags, and for every cell either both are blank or the
\* Canvas cell is _safe_ascii of the byte the MSPDPCanvas cell stores.
C20_CanvasesAgree ==
    /\ tcanvas.frame = canvas.frame
    /\ tcanvas.dirty = canvas.dirty
    /\ tcanvas.rows = canvas.rows /\ tcanvas.cols = canvas.cols
    /\ \A r \in 0 .. canvas.rows - 1 : \A c \in 0 .. canvas.cols - 1 :
          LET cell == canvas.grid[r][c]
          IN  IF cell = Blank THEN tcanvas.grid[r][c] = Space
              ELSE /\ cell.int
                   /\ tcanvas.grid[r][c] = _safe_ascii(cell.v)

\* a printable byte and a non-printable byte have been written, a frame drawn
C20_Witness ==
    /\ canvas.frame = 1 /\ canvas.dirty
    /\ \E r \in 0 .. canvas.rows - 1 : \E c \in 0 .. canvas.cols - 2 :
          /\ canvas.grid[r][c] = IntCell(65) /\ tcanvas.grid[r][c] = 65
          /\ canvas.grid[r][c + 1] = IntCell(200) /\ tcanvas.grid[r][c + 1] = Dot

\* the datagram is a checksum-valid display frame whose subcommand is
\* heartbeat, or outside 0 .. 4, or write-string with fewer than 4 bytes
NoOpFrame(d) ==
    IF NotForCanvas(d) THEN FALSE
    ELSE LET payload == parse_msp_v1(d).payload
         IN  \/ payload[1] = 0
             \/ payload[1] \notin 0 .. 4
             \/ payload[1] = 3 /\ Len(payload) < 4

NoOpFrames == {d \in Datagrams : NoOpFrame(d)}

\* C12 as stated, for the terminal loop: an iteration that processes such a
\* frame leaves cells, dirty and frame unchanged and redraws nothing.
C12_NoOpFramesChangeNothing ==
    [][ (Received(branch') /\ dgram' \in NoOpFrames) =>
            /\ tcanvas' = tcanvas
            /\ ~shown'
            /\ screen' = screen
      ]_vars

\* C12 amended, for the terminal loop: an iteration that processes such a
\* frame leaves every cell and the frame counter unchanged; unless the
\* once-a-second refresh is due it also leaves dirty unchanged and redraws
\* nothing; when the refresh is due the iteration ends with render(), which
\* redraws the unchanged grid and clears dirty (or does nothing).
C12_NoOpFramesKeepCells ==
    [][ (Received(branch') /\ dgram' \in NoOpFrames) =>
            /\ tcanvas'.grid = tcanvas.grid
            /\ tcanvas'.frame = tcanvas.frame
            /\ branch' \in {"heartbeat", "ignored"}
            /\ IF now' - last_info > InfoPeriod
               THEN /\ last_info' = now'
                    /\ IF shown'
                       THEN ~tcanvas'.dirty /\ screen' = tcanvas.grid
                       ELSE tcanvas' = tcanvas /\ screen' = screen
               ELSE /\ tcanvas' = tcanvas
                    /\ ~shown'
                    /\ screen' = screen
                    /\ last_info' = last_info
      ]_vars

\* C12, for the PNG render loop: an iteration that processes such a frame
\* leaves the canvas unchanged and renders nothing.
C12_RenderLoopNoOps ==
    [][ (Received(branch') /\ dgram' \in NoOpFrames) =>
            /\ canvas' = canvas
            /\ branch' \in {"heartbeat", "ignored"}
            /\ images' = images /\ out' = out
            /\ last_write_ts' = last_write_ts
      ]_vars

\* a heartbeat processed when the refresh was due, after a write had made
\* the canvas dirty: the terminal was redrawn and dirty cleared
C12_Witness ==
    /\ branch = "heartbeat"
    /\ shown /\ ~tcanvas.dirty
    /\ last_info = now
    /\ tcanvas.frame = 0
    /\ \E r \in 0 .. tcanvas.rows - 1 : \E c \in 0 .. tcanvas.cols - 1 :
          tcanvas.grid[r][c] = 65 /\ screen[r][c] = 65

\* a short write-string frame processed when no refresh was due
C12_WitnessQuiet ==
    /\ branch = "ignored"
    /\ dgram = WireFrame(DirResponse, MSP_DISPLAYPORT, <<DP_WRITE_STRING, 5, 2>>)
    /\ ~shown /\ tcanvas.dirty
    /\ tcanvas.frame = 1

\* C13, for the terminal loop: an iteration that receives a datagram which
\* does not parse, has a wrong checksum, carries another command or has an
\* empty payload leaves the canvas unchanged and redraws nothing.
C13_TuiDiscards ==
    [][ (Received(branch') /\ dgram' \in NotForCanvasSet) =>
            /\ tcanvas' = tcanvas
            /\ ~shown'
            /\ screen' = screen
      ]_vars

(***************************************************************************)
(* Claims about the serial reader (checked under SpecStream)               *)
(***************************************************************************)
\* the bytes of stream that read_one_msp_reply returned as its result
Returned == rpc = "done" /\ reply # None

\* where in stream the returned bytes begin (0-based)
ReplyStart == spos - Len(reply)

\* C17 as stated: every non-empty result of read_one_msp_reply starts with
\* $M>, is exactly 3 + 1 + 1 + L + 1 bytes long where L is its length byte,
\* and ends with the byte that followed the L payload bytes on the wire,
\* however many bytes each ser.read returned.
C17_ReplyIsCompleteFrame ==
    Returned =>
        IF Len(reply) < 6 THEN FALSE
        ELSE IF SubSeq(reply, 1, 3) # Marker THEN FALSE
        ELSE IF Len(reply) # 3 + 1 + 1 + reply[4] + 1 THEN FALSE
        ELSE /\ reply = SubSeq(stream, ReplyStart + 1, ReplyStart + Len(reply))
             /\ reply[Len(reply)] = stream[ReplyStart + 3 + 1 + 1 + reply[4] + 1]

\* what the reader does guarantee: the result is the marker and the bytes
\* read after it, in stream order, no longer than the declared frame
C17_ReplyIsMarkerAndWhatFollowed ==
    Returned =>
        /\ Len(reply) >= 6
        /\ SubSeq(reply, 1, 3) = Marker
        /\ Len(reply) <= 3 + 1 + 1 + reply[4] + 1
        /\ reply = SubSeq(stream, ReplyStart + 1, spos)

\* a result cut short: the payload read returned fewer bytes than declared
C17_ShortReply ==
    /\ Returned
    /\ reply[4] = 2
    /\ Len(reply) = 7

\* C18: at the start of every iteration of the scan loop buf holds at most
\* BufLimit bytes: all the bytes read while there are no more than that,
\* at least the last BufKeep of them afterwards; buf is always the tail of
\* what has been read, and the three bytes read last are not the marker (each
\* byte is read in such an iteration, so no marker has been passed over);
\* when the loop is left for the header buf ends with the marker.
C18_ScanBufferBounded ==
    /\ (rpc = "scan") =>
          /\ Len(sbuf) <= BufLimit
          /\ Len(sbuf) <= spos
          /\ (spos <= BufLimit) => Len(sbuf) = spos
          /\ (spos > BufLimit) => Len(sbuf) >= BufKeep
          /\ sbuf = SubSeq(stream, spos - Len(sbuf) + 1, spos)
          /\ (spos >= 3) => SubSeq(stream, spos - 2, spos) # Marker
    /\ (rpc = "ln") =>
          /\ EndsWithMarker(sbuf)
          /\ SubSeq(stream, spos - 2, spos) = Marker

\* the marker's $ was read before the cut, its > after it, and it is found
C18_Witness ==
    /\ rpc = "ln"
    /\ spos = BufLimit + 2
    /\ Len(sbuf) = BufKeep + 1
    /\ stream[BufLimit] = 36

\* buf has been cut on a stream with no marker
C18_WitnessNoise ==
    /\ rpc = "scan"
    /\ stream = Noise(BufLimit + 3)
    /\ spos = BufLimit + 3
    /\ Len(sbuf) = BufKeep + 2

(***************************************************************************)
(* Claims about the image commit (checked under SpecCommit)                *)
(***************************************************************************)
\* C11: a reader of the output path that has read to the end of the file has
\* read one complete image, the one that was committed last when it opened
\* the path (the previous image for a save then in progress, the new one
\* after its replace), never an empty or partial file; once a first image is
\* committed the output path exists and holds the complete image committed
\* last; before that the path does not exist.
C11_ReaderSeesCompleteImage ==
    /\ (rdpc = "done") =>
          /\ ropened >= 1
          /\ rgot = ImageData(ropened)
    /\ (rdpc = "absent") => ropened = 0
    /\ (committed >= 1) =>
          /\ dir[OutPath] # 0
          /\ files[dir[OutPath]] = ImageData(committed)
    /\ (committed = 0) => dir[OutPath] = 0

\* the reader opened the path and read the first image to its end while the
\* second was being written
C11_Witness ==
    /\ rdpc = "done"
    /\ rgot = ImageData(1)
    /\ committed = 1
    /\ wpc = "writing"
    /\ Len(files[wfd]) = 1 /\ Len(files[wfd]) < Chunks

\* the reader read the first image to its end across the replace that
\* committed the second
C11_WitnessAcross ==
    /\ rdpc = "done"
    /\ rgot = ImageData(1)
    /\ committed = 2
    /\ Len(rgot) = Chunks

====
